---------------------------- MODULE Spec2Model ----------------------------
(***************************************************************************)
(* Four-way stop intersection controller (tc.c).                           *)
(*                                                                         *)
(* One thread per car runs ArriveIntersection, CrossIntersection and       *)
(* ExitIntersection.  The shared state is the car table `cars`, the four   *)
(* quadrant locks `quads`, the four approach mutexes `dir_lock`, and the   *)
(* condition variables state_cond and quads[q].cond.  Every critical       *)
(* section of state_lock, quads[q].lock and print_lock is one atomic step; *)
(* a pthread_cond_wait is the step that parks the thread (pc "sleep" or    *)
(* "qsleep") and a broadcast is part of the step that issues it.           *)
(*                                                                         *)
(* usleep and the scheduler only bound delays from below, so the threads   *)
(* interleave freely and arrival_time constrains no order of steps.  The   *)
(* clock `now` is a logical one: it counts the distinct instants at which  *)
(* a stop pause has ended, which is all that the comparisons of            *)
(* stop_complete_time depend on; a print stamps the current instant.       *)
(***************************************************************************)
EXTENDS Integers, Sequences, FiniteSets, TLC

\* ------------------------------------------------------------------ bounds
\* At most MaxActive car threads get past their scheduled-arrival loop; the
\* others stay parked in it (an arbitrarily late thread).
MaxActive == 2

\* --------------------------------------------------------------- constants
DELTA_L == 5000000
DELTA_S == 4000000
DELTA_R == 3000000

DIR_N == 0
DIR_S == 1
DIR_E == 2
DIR_W == 3

Q_NW == 0
Q_NE == 1
Q_SW == 2
Q_SE == 3
NUM_QUADS == 4
NUM_CARS == 8

Dirs == {DIR_N, DIR_S, DIR_E, DIR_W}
Quads == 0 .. (NUM_QUADS - 1)
Cids == 1 .. NUM_CARS

\* The direction characters dir_to_index knows
DirChars == {"^", "v", ">", "<"}

\* ---------------------------------------------------------- pure functions
dir_to_index(d) ==
    CASE d = "^" -> DIR_N
      [] d = "v" -> DIR_S
      [] d = ">" -> DIR_E
      [] d = "<" -> DIR_W
      [] OTHER -> -1

\* A turn table that also counts '<' -> '^' as a left turn.
get_turn_type_WestNorthLeft(orig, target) ==
    IF orig = target THEN 0
    ELSE IF \/ (orig = "^" /\ target = "<")
            \/ (orig = "v" /\ target = ">")
            \/ (orig = ">" /\ target = "^")
            \/ (orig = "<" /\ target = "v")
            \/ (orig = "<" /\ target = "^")
         THEN 1
         ELSE 2

\* Turn type: 0 = straight, 1 = left, 2 = right
get_turn_type(orig, target) ==
    IF orig = target THEN 0
    ELSE IF \/ (orig = "^" /\ target = "<")
            \/ (orig = "v" /\ target = ">")
            \/ (orig = ">" /\ target = "^")
            \/ (orig = "<" /\ target = "v")
         THEN 1
         ELSE 2

get_crossing_time(turn) ==
    IF turn = 1 THEN DELTA_L
    ELSE IF turn = 0 THEN DELTA_S
    ELSE DELTA_R

\* 1 << q ; the masks below join distinct bits, so | is +
Bit(q) == 2 ^ q

\* mask & (1 << q)
InMask(mask, q) == (mask \div Bit(q)) % 2 = 1

\* A mask table whose '<' left-turn entry lacks its third quadrant.
get_quadrant_mask_ShortWestLeft(orig, target) ==
    LET turn == get_turn_type(orig, target) IN
    CASE orig = "^" ->
           IF turn = 2 THEN Bit(Q_SW)
           ELSE IF turn = 0 THEN Bit(Q_SW) + Bit(Q_NW)
           ELSE Bit(Q_SW) + Bit(Q_NW) + Bit(Q_NE)
      [] orig = "v" ->
           IF turn = 2 THEN Bit(Q_NE)
           ELSE IF turn = 0 THEN Bit(Q_NE) + Bit(Q_SE)
           ELSE Bit(Q_NE) + Bit(Q_SE) + Bit(Q_SW)
      [] orig = ">" ->
           IF turn = 2 THEN Bit(Q_NW)
           ELSE IF turn = 0 THEN Bit(Q_NW) + Bit(Q_NE)
           ELSE Bit(Q_NW) + Bit(Q_NE) + Bit(Q_SE)
      [] orig = "<" ->
           IF turn = 2 THEN Bit(Q_SE)
           ELSE IF turn = 0 THEN Bit(Q_SE) + Bit(Q_SW)
           ELSE Bit(Q_SE) + Bit(Q_SW)
      [] OTHER -> 0

get_quadrant_mask(orig, target) ==
    LET turn == get_turn_type(orig, target) IN
    CASE orig = "^" ->
           IF turn = 2 THEN Bit(Q_SW)
           ELSE IF turn = 0 THEN Bit(Q_SW) + Bit(Q_NW)
           ELSE Bit(Q_SW) + Bit(Q_NW) + Bit(Q_NE)
      [] orig = "v" ->
           IF turn = 2 THEN Bit(Q_NE)
           ELSE IF turn = 0 THEN Bit(Q_NE) + Bit(Q_SE)
           ELSE Bit(Q_NE) + Bit(Q_SE) + Bit(Q_SW)
      [] orig = ">" ->
           IF turn = 2 THEN Bit(Q_NW)
           ELSE IF turn = 0 THEN Bit(Q_NW) + Bit(Q_NE)
           ELSE Bit(Q_NW) + Bit(Q_NE) + Bit(Q_SE)
      [] orig = "<" ->
           IF turn = 2 THEN Bit(Q_SE)
           ELSE IF turn = 0 THEN Bit(Q_SE) + Bit(Q_SW)
           ELSE Bit(Q_SE) + Bit(Q_SW) + Bit(Q_NW)
      [] OTHER -> 0

\* ---------------------------------------------------------------- scenario
\* init_cars: the direction pair of each car, by cid
directions ==
    [c \in Cids |->
        CASE c = 1 -> [dir_original |-> "^", dir_target |-> "^"]
          [] c = 2 -> [dir_original |-> "^", dir_target |-> "^"]
          [] c = 3 -> [dir_original |-> "^", dir_target |-> "<"]
          [] c = 4 -> [dir_original |-> "v", dir_target |-> "v"]
          [] c = 5 -> [dir_original |-> "v", dir_target |-> ">"]
          [] c = 6 -> [dir_original |-> "^", dir_target |-> "^"]
          [] c = 7 -> [dir_original |-> ">", dir_target |-> "^"]
          [] c = 8 -> [dir_original |-> "<", dir_target |-> "^"]]

\* int dir = dir_to_index(car->dir.dir_original), for each car
origin == [c \in Cids |-> dir_to_index(directions[c].dir_original)]

DirOf(c) == origin[c]

\* The quadrants of the mask each car computes from its direction pair
regions ==
    [c \in Cids |->
        {q \in Quads :
            InMask(get_quadrant_mask(directions[c].dir_original,
                                     directions[c].dir_target), q)}]

RegionSet(c) == regions[c]

\* ------------------------------------------------------------------- state
VARIABLES
    now,        \* last value read from get_sim_time
    cars,       \* cars[c]: stop_complete_time, at_front, waiting, crossing, done
    quads,      \* quads[q]: owner_dir, count
    dir_lock,   \* dir_lock[d]: TRUE while the mutex is locked
    pc,         \* position of each car thread
    held,       \* quadrants acquire_quad has returned for and release_quad has not
    frame,      \* locals of CrossIntersection: turn, cross_time, mask
    log,        \* lines printed by each car: <<label>> or <<label, time>>
    log_times,  \* whether the observer of stdout keeps the time column
    state_cond, \* number of pthread_cond_broadcast(&state_cond) calls so far
    probe       \* a lone call of get_turn_type / get_quadrant_mask: inputs, results

vars == <<now, cars, quads, dir_lock, pc, held, frame, log, log_times,
          state_cond, probe>>

\* get_sim_time after a stop pause: the clock never runs backwards and is past
\* 0; since the last pause ended it has either not moved (two threads read the
\* same instant) or moved on.
get_sim_time == {t \in {now, now + 1} : t > 0}

\* An acquisition loop that runs from the highest quadrant down.
Min_Highest(S) == CHOOSE x \in S : \A y \in S : x >= y

Min(S) == CHOOSE x \in S : \A y \in S : x <= y
Max(S) == CHOOSE x \in S : \A y \in S : x >= y

\* pthread_cond_broadcast(&state_cond): every thread parked at line 238
\* returns to the top of the while (1) loop.
BroadcastState(p) == [x \in Cids |-> IF p[x] = "sleep" THEN "check" ELSE p[x]]

\* The quadrant a thread in the acquire loop asks for next
NextQuad(c) == Min(RegionSet(c) \ held[c])

\* pthread_cond_broadcast(&quads[q].cond): every thread parked at line 170
\* for quadrant q re-tests the while condition.
BroadcastQuad(p, q) ==
    [x \in Cids |-> IF p[x] = "qsleep" /\ NextQuad(x) = q THEN "acq" ELSE p[x]]

Started ==
    /\ now = 0
    /\ cars = [c \in Cids |-> [stop_complete_time |-> 0, at_front |-> FALSE,
                               waiting |-> FALSE, crossing |-> FALSE,
                               done |-> FALSE]]
    /\ quads = [q \in Quads |-> [owner_dir |-> -1, count |-> 0]]
    /\ dir_lock = [d \in Dirs |-> FALSE]
    /\ pc = [c \in Cids |-> "sched"]
    /\ held = [c \in Cids |-> {}]
    /\ frame = [c \in Cids |-> [turn |-> 0, cross_time |-> 0, mask |-> 0]]
    /\ log = [c \in Cids |-> <<>>]
    /\ state_cond = 0

\* main() after init_cars, init_system and pthread_create; the output is read
\* without its time column
Init == Started /\ log_times = FALSE /\ probe = [state |-> "none"]

\* The same start, the output read with its time column
InitLog == Started /\ log_times = TRUE /\ probe = [state |-> "none"]

\* print_event under print_lock
print_event(c, event, t) ==
    [log EXCEPT ![c] = Append(@, IF log_times THEN <<event, t>> ELSE <<event>>)]

\* ------------------------------------------------------ ArriveIntersection
\* The cars scheduled before c with the same direction pair as c
Twins(c) == {x \in Cids : x < c /\ directions[x] = directions[c]}

twins == [c \in Cids |-> Twins(c)]

\* The scheduler lets c leave its arrival loop: fewer than MaxActive threads
\* have left theirs, and every earlier-scheduled thread that runs the same
\* code on the same direction pair has (such threads differ in cid only).
MayArrive(c) ==
    /\ \A x \in twins[c] : pc[x] # "sched"
    /\ Cardinality({x \in Cids : pc[x] # "sched"}) < MaxActive

\* car_thread leaves its arrival loop; ArriveIntersection prints "arriving",
\* pauses for STOP_TIME and records stop_complete_time = get_sim_time().
Arrive(c) ==
    /\ pc[c] = "sched"
    /\ MayArrive(c)
    /\ log' = print_event(c, "arriving", now)
    /\ \E t \in get_sim_time :
          /\ now' = t
          /\ cars' = [cars EXCEPT ![c].stop_complete_time = t]
    /\ pc' = [pc EXCEPT ![c] = "gate"]
    /\ UNCHANGED <<quads, dir_lock, held, frame, log_times, state_cond, probe>>

\* A gate that never blocks.
DirLockFree_NoGate(d) == TRUE

\* pthread_mutex_lock(&dir_lock[dir]) succeeds only on an unlocked mutex.
DirLockFree(d) == ~dir_lock[d]

\* A car that reaches the front without a broadcast.
LockDir_NoBroadcast(c) ==
    /\ pc[c] = "gate"
    /\ DirLockFree(DirOf(c))
    /\ dir_lock' = [dir_lock EXCEPT ![DirOf(c)] = TRUE]
    /\ cars' = [cars EXCEPT ![c].at_front = TRUE, ![c].waiting = TRUE]
    /\ pc' = [pc EXCEPT ![c] = "check"]
    /\ UNCHANGED <<now, quads, held, frame, log, log_times, state_cond, probe>>

\* pthread_mutex_lock(&dir_lock[dir]); at_front = 1; waiting = 1; broadcast
LockDir(c) ==
    /\ pc[c] = "gate"
    /\ DirLockFree(DirOf(c))
    /\ dir_lock' = [dir_lock EXCEPT ![DirOf(c)] = TRUE]
    /\ cars' = [cars EXCEPT ![c].at_front = TRUE, ![c].waiting = TRUE]
    /\ state_cond' = state_cond + 1
    /\ pc' = [BroadcastState(pc) EXCEPT ![c] = "check"]
    /\ UNCHANGED <<now, quads, held, frame, log, log_times, probe>>

\* A fairness predicate in which equal stop times also count as earlier.
earlier_car_waiting_NonStrict(c) ==
    LET my_stop == cars[c].stop_complete_time
        my_dir == DirOf(c)
    IN \E i \in Cids :
          /\ i # c
          /\ ~cars[i].done
          /\ DirOf(i) # my_dir
          /\ cars[i].stop_complete_time > 0
          /\ cars[i].stop_complete_time <= my_stop
          /\ cars[i].at_front /\ cars[i].waiting /\ ~cars[i].crossing

\* for (i = 0; i < NUM_CARS; i++): is an earlier car of another direction
\* at the front, waiting and not crossing?
earlier_car_waiting(c) ==
    LET my_stop == cars[c].stop_complete_time
        my_dir == DirOf(c)
    IN \E i \in Cids :
          /\ i # c
          /\ ~cars[i].done
          /\ DirOf(i) # my_dir
          /\ cars[i].stop_complete_time > 0
          /\ cars[i].stop_complete_time < my_stop
          /\ cars[i].at_front /\ cars[i].waiting /\ ~cars[i].crossing

\* One pass of the while (1) loop: either park on state_cond, or leave the
\* loop, return, and set up the locals of CrossIntersection.
FairCheck(c) ==
    /\ pc[c] = "check"
    /\ IF earlier_car_waiting(c)
       THEN /\ pc' = [pc EXCEPT ![c] = "sleep"]
            /\ UNCHANGED frame
       ELSE LET turn == get_turn_type(directions[c].dir_original,
                                      directions[c].dir_target)
            IN /\ pc' = [pc EXCEPT ![c] = "acq"]
               /\ frame' = [frame EXCEPT ![c] =
                     [turn |-> turn,
                      cross_time |-> get_crossing_time(turn),
                      mask |-> get_quadrant_mask(directions[c].dir_original,
                                                 directions[c].dir_target)]]
    /\ UNCHANGED <<now, cars, quads, dir_lock, held, log, log_times, state_cond, probe>>

\* pthread_cond_wait may return without a broadcast.
SpuriousWake(c) ==
    /\ \/ pc[c] = "sleep" /\ pc' = [pc EXCEPT ![c] = "check"]
       \/ pc[c] = "qsleep" /\ pc' = [pc EXCEPT ![c] = "acq"]
    /\ UNCHANGED <<now, cars, quads, dir_lock, held, frame, log, log_times, state_cond, probe>>

\* ------------------------------------------------------- CrossIntersection
\* An acquire that ignores the owner.
CanAcquire_NoOwnerTest(q, dir) == TRUE

\* A quadrant that admits one car at a time, whatever its direction.
CanAcquire_Exclusive(q, dir) == quads[q].owner_dir = -1

\* The while condition of acquire_quad, negated
CanAcquire(q, dir) == quads[q].owner_dir = -1 \/ quads[q].owner_dir = dir

\* An acquire that forgets to count a second holder.
Acquired_NoCount(q, dir) == [quads EXCEPT ![q] = [owner_dir |-> dir, count |-> 1]]

\* owner_dir = dir; count++
Acquired(q, dir) == [quads EXCEPT ![q] = [owner_dir |-> dir, count |-> @.count + 1]]

\* One call of acquire_quad from the ascending loop, up to its return or its
\* pthread_cond_wait.
acquire_quad(c) ==
    /\ pc[c] = "acq"
    /\ LET q == Min({x \in Quads : InMask(frame[c].mask, x)} \ held[c])
           dir == DirOf(c)
       IN IF CanAcquire(q, dir)
          THEN /\ quads' = Acquired(q, dir)
               /\ held' = [held EXCEPT ![c] = @ \cup {q}]
               /\ pc' = [pc EXCEPT ![c] =
                     IF \A x \in Quads : InMask(frame[c].mask, x) => x \in held'[c]
                     THEN "begin" ELSE "acq"]
          ELSE /\ pc' = [pc EXCEPT ![c] = "qsleep"]
               /\ UNCHANGED <<quads, held>>
    /\ UNCHANGED <<now, cars, dir_lock, frame, log, log_times, state_cond, probe>>

\* A crossing start that leaves waiting set.
BeginCross_KeepWaiting(c) ==
    /\ pc[c] = "begin"
    /\ cars' = [cars EXCEPT ![c].crossing = TRUE]
    /\ state_cond' = state_cond + 1
    /\ pc' = [BroadcastState(pc) EXCEPT ![c] = "ungate"]
    /\ UNCHANGED <<now, quads, dir_lock, held, frame, log, log_times, probe>>

\* waiting = 0; crossing = 1; broadcast
BeginCross(c) ==
    /\ pc[c] = "begin"
    /\ cars' = [cars EXCEPT ![c].waiting = FALSE, ![c].crossing = TRUE]
    /\ state_cond' = state_cond + 1
    /\ pc' = [BroadcastState(pc) EXCEPT ![c] = "ungate"]
    /\ UNCHANGED <<now, quads, dir_lock, held, frame, log, log_times, probe>>

\* A crossing start that never gives the gate back.
UnlockDir_NoUnlock(c) ==
    /\ pc[c] = "ungate"
    /\ log' = print_event(c, "crossing", now)
    /\ pc' = [pc EXCEPT ![c] = "spin"]
    /\ UNCHANGED <<now, cars, quads, dir_lock, held, frame, log_times, state_cond, probe>>

\* pthread_mutex_unlock(&dir_lock[dir]); print "crossing"
UnlockDir(c) ==
    /\ pc[c] = "ungate"
    /\ dir_lock' = [dir_lock EXCEPT ![DirOf(c)] = FALSE]
    /\ log' = print_event(c, "crossing", now)
    /\ pc' = [pc EXCEPT ![c] = "spin"]
    /\ UNCHANGED <<now, cars, quads, held, frame, log_times, state_cond, probe>>

\* After Spin(cross_time): crossing = 0 (no broadcast)
EndCross(c) ==
    /\ pc[c] = "spin"
    /\ cars' = [cars EXCEPT ![c].crossing = FALSE]
    /\ pc' = [pc EXCEPT ![c] = "rel"]
    /\ UNCHANGED <<now, quads, dir_lock, held, frame, log, log_times, state_cond, probe>>

\* A release that frees the quadrant while other holders remain.
Released_AlwaysFree(q) == [quads EXCEPT ![q] = [owner_dir |-> -1, count |-> @.count - 1]]

\* A release that never resets the owner.
Released_KeepOwner(q) == [quads EXCEPT ![q].count = @ - 1]

\* A release that leaves the quadrant as it is.
Released_NoDecrement(q) == quads

\* count--; at 0 the quadrant is freed and its waiters woken
Released(q) ==
    IF quads[q].count - 1 = 0
    THEN [quads EXCEPT ![q] = [owner_dir |-> -1, count |-> 0]]
    ELSE [quads EXCEPT ![q].count = @ - 1]

\* A release that frees the quadrant without a broadcast.
WakeOnRelease_NoBroadcast(p, q) == p

\* The threads release_quad(q) wakes
WakeOnRelease(p, q) == IF quads[q].count - 1 = 0 THEN BroadcastQuad(p, q) ELSE p

\* One call of release_quad from the descending loop
release_quad(c) ==
    /\ pc[c] = "rel"
    /\ LET q == Max(held[c])
       IN /\ quads' = Released(q)
          /\ held' = [held EXCEPT ![c] = @ \ {q}]
          /\ pc' = [WakeOnRelease(pc, q) EXCEPT ![c] =
                IF held'[c] = {} THEN "exit" ELSE "rel"]
    /\ UNCHANGED <<now, cars, dir_lock, frame, log, log_times, state_cond, probe>>

\* -------------------------------------------------------- ExitIntersection
\* An exit that prints nothing.
ExitIntersection_NoPrint(c) ==
    /\ pc[c] = "exit"
    /\ cars' = [cars EXCEPT ![c].done = TRUE, ![c].at_front = FALSE]
    /\ state_cond' = state_cond + 1
    /\ pc' = [BroadcastState(pc) EXCEPT ![c] = "done"]
    /\ UNCHANGED <<now, quads, dir_lock, held, frame, log, log_times, probe>>

\* An exit that leaves at_front set.
ExitIntersection_KeepFront(c) ==
    /\ pc[c] = "exit"
    /\ log' = print_event(c, "exiting", now)
    /\ cars' = [cars EXCEPT ![c].done = TRUE]
    /\ state_cond' = state_cond + 1
    /\ pc' = [BroadcastState(pc) EXCEPT ![c] = "done"]
    /\ UNCHANGED <<now, quads, dir_lock, held, frame, log_times, probe>>

\* print "exiting"; done = 1; at_front = 0; broadcast
ExitIntersection(c) ==
    /\ pc[c] = "exit"
    /\ log' = print_event(c, "exiting", now)
    /\ cars' = [cars EXCEPT ![c].done = TRUE, ![c].at_front = FALSE]
    /\ state_cond' = state_cond + 1
    /\ pc' = [BroadcastState(pc) EXCEPT ![c] = "done"]
    /\ UNCHANGED <<now, quads, dir_lock, held, frame, log_times, probe>>

\* ------------------------------------------------------------ car_thread
car_thread(c) ==
    \/ Arrive(c)
    \/ LockDir(c)
    \/ FairCheck(c)
    \/ acquire_quad(c)
    \/ BeginCross(c)
    \/ UnlockDir(c)
    \/ EndCross(c)
    \/ release_quad(c)
    \/ ExitIntersection(c)

Next == \E c \in Cids : car_thread(c) \/ SpuriousWake(c)

Spec == Init /\ [][Next]_vars

SpecLog == InitLog /\ [][Next]_vars

\* Every runnable thread is eventually scheduled; a spurious wake-up is never
\* owed to anyone.
FairSpec == Spec /\ \A c \in Cids : WF_vars(car_thread(c))

\* ------------------------------------------------ the mask table on its own
\* One origin and two targets, any characters of the alphabet; no car runs.
ProbeInit ==
    /\ Started
    /\ log_times = FALSE
    /\ probe \in [state : {"in"}, orig : DirChars, target1 : DirChars,
                  target2 : DirChars, turn1 : {-1}, mask1 : {0},
                  turn2 : {-1}, mask2 : {0}]

\* The two calls CrossIntersection makes (lines 247 and 250), for each target.
ProbeCall ==
    /\ probe.state = "in"
    /\ probe' = [probe EXCEPT
                    !.state = "out",
                    !.turn1 = get_turn_type(probe.orig, probe.target1),
                    !.mask1 = get_quadrant_mask(probe.orig, probe.target1),
                    !.turn2 = get_turn_type(probe.orig, probe.target2),
                    !.mask2 = get_quadrant_mask(probe.orig, probe.target2)]
    /\ UNCHANGED <<now, cars, quads, dir_lock, pc, held, frame, log, log_times,
                   state_cond>>

ProbeSpec == ProbeInit /\ [][ProbeCall]_vars

\* ================================================================= claims
\* The thread is between its lock of dir_lock[dir] (line 223) and its unlock
\* (line 261).
HoldsGate(c) == pc[c] \in {"check", "sleep", "acq", "qsleep", "begin", "ungate"}

\* The thread has locked dir_lock[dir] at some point.
PassedGate(c) == pc[c] \notin {"sched", "gate"}

Stop(c) == cars[c].stop_complete_time

\* Pairs of different cars of one direction, and pairs of cars of two
\* directions
SamePairs == {p \in Cids \X Cids : p[1] # p[2] /\ DirOf(p[1]) = DirOf(p[2])}

CrossPairs == {p \in Cids \X Cids : DirOf(p[1]) # DirOf(p[2])}

\* Pairs of cars of two directions whose quadrant sets intersect
ConflictPairs == {p \in CrossPairs : RegionSet(p[1]) \cap RegionSet(p[2]) # {}}

\* C1: two cars of different origin directions whose quadrant sets intersect
\* are never both crossing; in particular cars 5 and 7.
C1_NoCrossDirectionOverlap ==
    \A p \in ConflictPairs : ~(cars[p[1]].crossing /\ cars[p[2]].crossing)

\* Car 5 is crossing while car 7 is parked in acquire_quad.
C1_Witness == cars[5].crossing /\ pc[7] = "qsleep"

\* C2: a car B never sets crossing = 1 while a car A of another direction
\* with an earlier stop_complete_time is at the front, waiting and not
\* crossing.
C2_FairnessMonotonicity ==
    [][\A p \in CrossPairs :
          LET a == p[1]
              b == p[2]
          IN (/\ Stop(a) > 0 /\ Stop(a) < Stop(b)
              /\ ~cars[b].crossing /\ cars'[b].crossing)
                 => ~(cars[a].at_front /\ cars[a].waiting /\ ~cars[a].crossing)]_vars

C4_ApproachSerialization ==
    /\ \A p \in SamePairs : ~(HoldsGate(p[1]) /\ HoldsGate(p[2]))
    /\ \A d \in Dirs : dir_lock[d] <=> \E c \in Cids : DirOf(c) = d /\ HoldsGate(c)

\* A car holds the north gate while another north car is stopped at it.
C4_Witness ==
    \E a, b \in Cids :
        /\ DirOf(a) = DIR_N /\ DirOf(b) = DIR_N
        /\ HoldsGate(a) /\ pc[b] = "gate"

\* C5: of two cars of the same direction, the one with the earlier
\* stop_complete_time takes the gate first.
C5_ArrivalOrderAtGate ==
    \A p \in SamePairs :
        (Stop(p[1]) > 0 /\ Stop(p[1]) < Stop(p[2]))
            => ~(PassedGate(p[2]) /\ pc[p[1]] = "gate")

\* C6: every holder of a quadrant has the quadrant's owner direction, and cars
\* of two different directions never hold the same quadrant at once.
C6_QuadrantMutex ==
    /\ \A q \in Quads : quads[q].count > 0 =>
          \A c \in Cids : q \in held[c] => DirOf(c) = quads[q].owner_dir
    /\ \A p \in CrossPairs : held[p[1]] \cap held[p[2]] = {}

\* A car holds a quadrant that a car of another direction is parked on.
C6_Witness ==
    \E q \in Quads : \E a, x \in Cids :
        /\ q \in held[a] /\ quads[q].count > 0
        /\ pc[x] = "qsleep" /\ NextQuad(x) = q /\ DirOf(x) # DirOf(a)

\* C7: count is never negative, count > 0 exactly when owner_dir is a
\* direction, and count = 0 exactly when owner_dir is -1.
C7_RegionLockInvariant ==
    \A q \in Quads :
        /\ quads[q].count >= 0
        /\ quads[q].count > 0 <=> quads[q].owner_dir \in Dirs
        /\ quads[q].count = 0 <=> quads[q].owner_dir = -1

\* A car has released its quadrants, one of them is free again, and another
\* quadrant is still held.
C7_Witness ==
    \E c \in Cids : \E q1, q2 \in Quads :
        /\ pc[c] = "exit" /\ q1 \in RegionSet(c)
        /\ quads[q1].count = 0 /\ quads[q2].count > 0

Labels(c) == [i \in 1 .. Len(log[c]) |-> log[c][i][1]]

IsPrefix(s, t) == Len(s) <= Len(t) /\ \A i \in 1 .. Len(s) : s[i] = t[i]

\* C8: a car prints "arriving", "crossing", "exiting" once each, in that
\* order, all three by the time it is done, with non-decreasing times.
C8_EventOrder ==
    \A c \in Cids :
        /\ IsPrefix(Labels(c), <<"arriving", "crossing", "exiting">>)
        /\ cars[c].done => Len(log[c]) = 3
        /\ cars[c].crossing => Len(log[c]) >= 1
        /\ \A i, j \in 1 .. Len(log[c]) : i < j => log[c][i][2] <= log[c][j][2]

\* A car is done and the clock moved between its first and last line.
C8_Witness ==
    \E c \in Cids :
        /\ cars[c].done /\ Len(log[c]) = 3
        /\ log[c][1][2] < log[c][3][2]

\* C9: two cars of the same direction may cross at once; when they do, every
\* quadrant they share is owned by their direction with count >= 2.
C9_SameDirectionSharing ==
    \A p \in SamePairs :
        (cars[p[1]].crossing /\ cars[p[2]].crossing)
            => \A q \in RegionSet(p[1]) \cap RegionSet(p[2]) :
                  quads[q].owner_dir = DirOf(p[1]) /\ quads[q].count >= 2

\* Cars 1 and 2 are crossing at once, sharing SW and NW.
C9_Witness ==
    /\ cars[1].crossing /\ cars[2].crossing
    /\ quads[Q_SW].count >= 2 /\ quads[Q_NW].count >= 2

\* The turn, mask size and duration a car crosses with
CrossesAs(c, turn, n, delta) ==
    cars[c].crossing =>
        /\ frame[c].turn = turn
        /\ Cardinality(held[c]) = n
        /\ held[c] = {q \in Quads : InMask(frame[c].mask, q)}
        /\ frame[c].cross_time = delta

\* C10 as stated: cars 3, 5, 7 and 8 all cross as left turns, on three
\* quadrants, for DELTA_L.
C10_AllFourLeft == \A c \in {3, 5, 7, 8} : CrossesAs(c, 1, 3, DELTA_L)

\* C10 amended: cars 3, 5 and 7 cross as left turns, on three quadrants, for
\* DELTA_L; car 8 ('<' to '^') crosses as a right turn, on one quadrant, for
\* DELTA_R.
C10_TurnClassification ==
    /\ \A c \in {3, 5, 7} : CrossesAs(c, 1, 3, DELTA_L)
    /\ CrossesAs(8, 2, 1, DELTA_R)

\* Car 8 is crossing.
C10_Witness == cars[8].crossing /\ held[8] = {Q_SE}

\* The quadrants a mask names.
MaskSet(mask) == {q \in Quads : InMask(mask, q)}

\* Quadrants a turn of this type needs: Right 1, Straight 2, Left 3.
TurnSize(turn) == CASE turn = 2 -> 1 [] turn = 0 -> 2 [] turn = 1 -> 3 [] OTHER -> 0

\* C11: for every origin and target of the alphabet the mask is non-empty and
\* names exactly 1 quadrant for a Right turn, 2 for Straight, 3 for Left, and
\* for one origin the Right set lies inside the Straight set, which lies inside
\* the Left set.
C11_RegionSetSize ==
    probe.state = "out" =>
        /\ probe.turn1 \in {0, 1, 2} /\ probe.turn2 \in {0, 1, 2}
        /\ MaskSet(probe.mask1) # {} /\ MaskSet(probe.mask2) # {}
        /\ probe.mask1 < Bit(NUM_QUADS) /\ probe.mask2 < Bit(NUM_QUADS)
        /\ Cardinality(MaskSet(probe.mask1)) = TurnSize(probe.turn1)
        /\ Cardinality(MaskSet(probe.mask2)) = TurnSize(probe.turn2)
        /\ TurnSize(probe.turn1) <= TurnSize(probe.turn2)
              => MaskSet(probe.mask1) \subseteq MaskSet(probe.mask2)

\* A Right and a Left turn from '<' have both been computed.
C11_Witness ==
    /\ probe.state = "out" /\ probe.orig = "<"
    /\ probe.turn1 = 2 /\ probe.turn2 = 1
    /\ MaskSet(probe.mask1) = {Q_SE}
    /\ MaskSet(probe.mask2) = {Q_SE, Q_SW, Q_NW}

\* The thread is in the acquisition loop (lines 252-253) with some but not all
\* of its quadrants.
MidAcquire(c) ==
    /\ pc[c] \in {"acq", "qsleep"}
    /\ held[c] # {} /\ held[c] # RegionSet(c)

\* C12: a car whose waiting flag is set holds the gate of its direction; the
\* gate is given up only by a car that holds all its quadrants and has set
\* crossing; so per direction at most one car has waiting set and at most one
\* car is mid-acquisition with a strict non-empty part of its quadrants.
C12_GateSpan ==
    /\ \A c \in Cids :
          /\ cars[c].waiting => HoldsGate(c) /\ dir_lock[DirOf(c)]
          /\ MidAcquire(c) => cars[c].waiting
          /\ pc[c] = "ungate" => cars[c].crossing /\ held[c] = RegionSet(c)
          /\ (PassedGate(c) /\ ~dir_lock[DirOf(c)]) =>
                \/ cars[c].crossing /\ held[c] = RegionSet(c)
                \/ ~cars[c].crossing /\ ~cars[c].waiting
    /\ \A p \in SamePairs :
          /\ ~(cars[p[1]].waiting /\ cars[p[2]].waiting)
          /\ ~(MidAcquire(p[1]) /\ MidAcquire(p[2]))

\* A north car is mid-acquisition behind the gate while another north car is
\* stopped in front of it.
C12_Witness ==
    \E p \in SamePairs :
        /\ MidAcquire(p[1]) /\ cars[p[1]].waiting
        /\ pc[p[2]] = "gate" /\ Stop(p[2]) > 0

\* What one step may do to the quadrants a car holds: take one quadrant above
\* all it holds, with its gate locked, or give back its highest one.
LockOrderStep(c) ==
    /\ Cardinality(held'[c] \ held[c]) + Cardinality(held[c] \ held'[c]) <= 1
    /\ \A q \in held'[c] \ held[c] :
          /\ dir_lock[DirOf(c)] /\ HoldsGate(c)
          /\ \A x \in held[c] : x < q
    /\ \A q \in held[c] \ held'[c] : \A x \in held'[c] : x < q

\* C13: a car takes its gate before its first quadrant, takes quadrants in
\* strictly ascending index and gives them back in strictly descending index;
\* a car blocked in acquire_quad(q) holds no quadrant of index q or above; a
\* car in front of its gate or in the fairness wait loop holds no quadrant.
C13_LockOrdering ==
    /\ [](\A c \in Cids :
            /\ pc[c] \in {"sched", "gate", "check", "sleep"} => held[c] = {}
            /\ pc[c] = "qsleep" => \A x \in held[c] : x < NextQuad(c))
    /\ [][\A c \in Cids : LockOrderStep(c)]_vars

\* A car holds a quadrant and is blocked on a higher one.
C13_Witness ==
    \E c \in Cids :
        /\ pc[c] = "qsleep" /\ held[c] # {}
        /\ \A x \in held[c] : x < NextQuad(c)

\* The thread has called acquire_quad at least once and has not yet set
\* crossing = 1 (lines 252-257).
InAcquisition(c) ==
    \/ pc[c] \in {"qsleep", "begin"}
    \/ pc[c] = "acq" /\ held[c] # {}

\* C14: while a car is inside its acquisition loop, earlier_car_waiting
\* evaluated for it on the current flags is false.
C14_NoAcquireWhileEarlierWaits ==
    \A c \in Cids : InAcquisition(c) => ~earlier_car_waiting(c)

\* The step changes one of the four coordination flags of car c.
FlagsChanged(c) ==
    \/ cars'[c].at_front # cars[c].at_front
    \/ cars'[c].waiting # cars[c].waiting
    \/ cars'[c].crossing # cars[c].crossing
    \/ cars'[c].done # cars[c].done

\* The step calls pthread_cond_broadcast(&state_cond): one more broadcast is
\* counted and no thread stays parked on state_cond.
Broadcasts ==
    /\ state_cond' = state_cond + 1
    /\ \A x \in Cids : pc'[x] # "sleep"

\* C15 as stated: every step that changes at_front, waiting, crossing or done
\* of a car broadcasts state_cond, the reset of crossing included.
C15_BroadcastOnEveryFlagChange ==
    [][(\E c \in Cids : FlagsChanged(c)) => Broadcasts]_vars

\* C15 as the code has it: a step that changes a flag broadcasts state_cond
\* unless it is the reset of crossing after the crossing time, which changes
\* crossing alone and issues no broadcast.
C15_BroadcastExceptCrossingReset ==
    [][\A c \in Cids :
          FlagsChanged(c) =>
              IF cars[c].crossing /\ ~cars'[c].crossing
              THEN /\ state_cond' = state_cond
                   /\ cars'[c] = [cars[c] EXCEPT !.crossing = FALSE]
              ELSE Broadcasts]_vars

\* A car has reset crossing: its two broadcasts (front, crossing start) are
\* counted and it is about to release its quadrants.
C15_Witness ==
    \E c \in Cids :
        /\ pc[c] = "rel" /\ held[c] = RegionSet(c)
        /\ ~cars[c].crossing /\ cars[c].at_front
        /\ state_cond >= 2

\* C16: cars of one direction never block each other in acquire_quad: a car
\* of direction d blocked in acquire_quad(q, d) sees quads[q] owned by another
\* direction with count > 0, and an acquire on a free quadrant or on one owned
\* by the car's own direction succeeds without waiting.
C16_SameDirectionNeverBlocks ==
    /\ [](\A c \in Cids :
            pc[c] = "qsleep" =>
                /\ quads[NextQuad(c)].owner_dir \in Dirs \ {DirOf(c)}
                /\ quads[NextQuad(c)].count > 0)
    /\ [][\A c \in Cids :
            (pc[c] = "acq" /\ pc'[c] # pc[c]
               /\ quads[NextQuad(c)].owner_dir \in {-1, DirOf(c)})
                => /\ NextQuad(c) \in held'[c]
                   /\ quads'[NextQuad(c)].owner_dir = DirOf(c)
                   /\ quads'[NextQuad(c)].count = quads[NextQuad(c)].count + 1]_vars

\* A car is blocked on a quadrant that a single car of another direction
\* holds.
C16_Witness ==
    \E c \in Cids :
        /\ pc[c] = "qsleep"
        /\ quads[NextQuad(c)].owner_dir \notin {-1, DirOf(c)}
        /\ quads[NextQuad(c)].count = 1

\* The cars at the front of their lines that wait and do not cross yet.
FrontWaiters ==
    {c \in Cids : cars[c].at_front /\ cars[c].waiting /\ ~cars[c].crossing}

\* C17: a car whose stop_complete_time is the least among the cars at the
\* front, waiting and not crossing has a false fairness predicate and is not
\* parked in the fairness loop; no parked car has missed its wake-up (a car
\* parked on state_cond still has a true predicate, a car parked on a quadrant
\* still faces a foreign owner); and with every runnable thread scheduled,
\* every car that sets waiting sets crossing, so in the end no car waits or
\* sleeps.
C17_OldestWaiterProceeds ==
    /\ [](\A c \in FrontWaiters :
            /\ (\A x \in FrontWaiters : Stop(c) <= Stop(x))
                  => ~earlier_car_waiting(c) /\ pc[c] # "sleep"
            /\ pc[c] = "sleep" => earlier_car_waiting(c)
            /\ pc[c] = "qsleep" => ~CanAcquire(NextQuad(c), DirOf(c)))
    /\ <>[](\A c \in Cids :
              ~cars[c].waiting /\ pc[c] \notin {"sleep", "qsleep"})

\* A later car is parked in the fairness loop behind the oldest waiter of
\* another direction, whose own predicate is false.
C17_Witness ==
    \E p \in CrossPairs :
        /\ pc[p[1]] = "sleep" /\ earlier_car_waiting(p[1])
        /\ p[2] \in FrontWaiters /\ Stop(p[2]) < Stop(p[1])
        /\ ~earlier_car_waiting(p[2])

\* C18: a crossing car holds every quadrant of its set, each owned by the
\* car's direction with count >= 1, and the count of a quadrant is the number
\* of cars that have returned from acquire_quad on it and not yet called
\* release_quad on it.
C18_CrossingHoldsRegionSet ==
    /\ \A c \in Cids :
          cars[c].crossing =>
              /\ held[c] = RegionSet(c)
              /\ \A q \in held[c] :
                    quads[q].owner_dir = DirOf(c) /\ quads[q].count >= 1
    /\ \A q \in Quads :
          quads[q].count = Cardinality({c \in Cids : q \in held[c]})

\* One car crosses while another car of its direction, already past its
\* crossing, still holds a quadrant of the first car's set.
C18_Witness ==
    \E p \in SamePairs :
        /\ cars[p[1]].crossing
        /\ pc[p[2]] = "rel" /\ held[p[2]] \cap RegionSet(p[1]) # {}
        /\ \E q \in RegionSet(p[1]) : quads[q].count = 2

\* The step is taken by car c's own thread, at one of its critical sections
\* under state_lock (lines 219-221, 225-229, 255-259, 266-268, 280-284).
OwnFlagStep(c) ==
    /\ pc[c] \in {"sched", "gate", "begin", "spin", "exit"}
    /\ pc'[c] # pc[c]

\* C19: for every car, waiting and crossing are never both set; waiting
\* implies at_front and a recorded stop time; crossing implies at_front; done
\* implies at_front, waiting and crossing are all clear; done is never reset;
\* and a step changes the record of at most one car, the car whose thread
\* takes the step in one of its state_lock critical sections.
C19_FlagInvariants ==
    /\ [](\A c \in Cids :
            /\ ~(cars[c].waiting /\ cars[c].crossing)
            /\ cars[c].waiting => cars[c].at_front /\ Stop(c) > 0
            /\ cars[c].crossing => cars[c].at_front
            /\ cars[c].done =>
                  ~cars[c].at_front /\ ~cars[c].waiting /\ ~cars[c].crossing)
    /\ [][/\ \A c \in Cids :
               /\ cars[c].done => cars'[c].done
               /\ cars'[c] # cars[c] => OwnFlagStep(c)
          /\ \A a, b \in Cids :
               (cars'[a] # cars[a] /\ cars'[b] # cars[b]) => a = b]_vars

\* One car is done while another is at the front and waiting.
C19_Witness ==
    \E a, b \in Cids :
        /\ cars[a].done /\ ~cars[a].at_front
        /\ cars[b].waiting /\ cars[b].at_front /\ Stop(b) > 0

\* The car's thread has not started or has finished.
Idle(c) == pc[c] = "sched" \/ cars[c].done

\* C20: a car that is done holds no quadrant and no gate; a gate all of whose
\* cars are idle is unlocked and a quadrant all of whose users are idle is
\* free, so when every car is done every quadrant is free (owner_dir = -1,
\* count = 0) and every gate unlocked.
C20_AllReleasedAtDone ==
    /\ \A c \in Cids : cars[c].done => held[c] = {} /\ ~HoldsGate(c)
    /\ \A d \in Dirs :
          (\A c \in Cids : DirOf(c) = d => Idle(c)) => ~dir_lock[d]
    /\ \A q \in Quads :
          (\A c \in Cids : q \in RegionSet(c) => Idle(c))
              => quads[q].owner_dir = -1 /\ quads[q].count = 0
    /\ (\A c \in Cids : Idle(c)) =>
          /\ \A q \in Quads : quads[q].owner_dir = -1 /\ quads[q].count = 0
          /\ \A d \in Dirs : ~dir_lock[d]

\* Every car that was started is done, and no quadrant or gate is held.
C20_Witness ==
    /\ \A c \in Cids : Idle(c)
    /\ Cardinality({c \in Cids : cars[c].done}) = MaxActive
    /\ \A q \in Quads : quads[q].count = 0
    /\ \A d \in Dirs : ~dir_lock[d]

=============================================================================
